---------------------------- MODULE Spec2Model ----------------------------
(***************************************************************************)
(* A model of ethers-db: the read-only accessor layer (Reader, Client)     *)
(* over an Erigon chaindata store.  The store is seeded by the test        *)
(* Writer (src/src/ffi/writer.rs), the Writer is closed, and the Client    *)
(* then answers queries from the frozen store.                             *)
(*                                                                         *)
(* Conventions.  An optional value (Rust Option, a table row that may be   *)
(* missing) is a sequence of length at most one: << >> is None and <<v>>   *)
(* is Some(v).  A Result is a record [tag, val] with tag "Ok" or "Err";    *)
(* tag "Panic" is a Rust panic (the process aborts instead of returning).  *)
(* A record lists its fields in the order in which their names first occur *)
(* in this module, the order in which TLC keeps them.                      *)
(*                                                                         *)
(* Specifications, one per family of queries, all over the same variables: *)
(*   SpecChain    head hash, header numbers, canonical hashes              *)
(*   SpecAccount  account records: get_balance, get_transaction_count      *)
(*   SpecStorage  storage entries: read_account_storage                    *)
(*   SpecState    accounts and storage: get_storage_at                     *)
(*   SpecBody     block bodies: read_body_for_storage                      *)
(*   SpecTx       lookup, body and transaction tables: get_transaction     *)
(*   SpecBlock    headers, bodies, transactions, uncles: get_block,        *)
(*                get_block_with_txs                                       *)
(*   SpecUncle    headers, bodies, uncles: get_uncle_count, get_uncle      *)
(*   SpecCodec    one account row: Account::decode, Account::encode        *)
(*   SpecHead     head pointers: read_head_header_hash,                    *)
(*                read_head_block_hash                                     *)
(*   SpecReader   the single-row lookups of the Reader                     *)
(*   SpecCode     accounts and code: read_account_data, read_code          *)
(*   SpecLookup   the four block queries on stores with missing rows       *)
(*   SpecCast     MsgCast::cast on messages of the three variants          *)
(*   SpecFacade   every query of the Client, in any order                  *)
(*   SpecBlockPair  get_block and get_block_with_txs on the same block     *)
(***************************************************************************)
EXTENDS Integers, Sequences, FiniteSets, TLC

(***************************************************************************)
(* Bounds of the model.                                                    *)
(***************************************************************************)
\* block numbers are 0..MaxNum
MaxNum == 1
\* 32-byte hashes are 0..MaxHash; 0 is the zero hash (H256::default())
MaxHash == 2
\* the Writer seeds at most MaxRows rows before it is closed
MaxRows == 2

\* account addresses are 0..MaxAddr
MaxAddr == 1
\* account incarnations are 0..MaxInc
MaxInc == 1
\* storage slot keys are 0..MaxSlot
MaxSlot == 1
\* stored storage values are 1..MaxVal; nonces and balances are 0..MaxVal
MaxVal == 1

\* stored bodies have base_tx_id in 0..MaxBase
MaxBase == 0
\* stored bodies have tx_amount in 0..MaxAmount
MaxAmount == 4
\* stored bodies list at most MaxUncles uncle headers
MaxUncles == 1
\* the account codec is applied to nonces up to MaxCodecNonce (two bytes),
\* incarnations up to MaxCodecIncarnation (two bytes) and balances up to
\* MaxCodecBalance (three bytes)
MaxCodecNonce == 258
MaxCodecIncarnation == 513
MaxCodecBalance == 65536
\* at most MaxTrail bytes follow an account encoding
MaxTrail == 2
\* one put_transactions call stores 1..MaxTxs entries
MaxTxs == 2
\* put_transactions starts at a transaction id in 0..MaxTxId
MaxTxId == 2

Num == 0..MaxNum
Hash == 0..MaxHash
ZeroHash == 0
Addr == 0..MaxAddr
Incarnation == 0..MaxInc
Slot == 0..MaxSlot
\* H256::default() as a storage value
ZeroValue == 0

VARIABLES
    db,                      \* the chaindata store: one map per table
    writer,                  \* "open" while the Writer seeds, then "closed"
    last                     \* the last query made and its result

vars == <<db, writer, last>>

(***************************************************************************)
(* Option and Result.                                                      *)
(***************************************************************************)
None == << >>
Some(v) == <<v>>

Ok(v) == [tag |-> "Ok", val |-> v]
Err(m) == [tag |-> "Err", val |-> m]
Panic(m) == [tag |-> "Panic", val |-> m]

IsOk(r) == r.tag = "Ok"

\* the record of the last query: the method, its arguments, its result, and
\* the number of read snapshots (MDBX read transactions) it opened
NoQuery == [op |-> "none", arg |-> << >>, res |-> Ok(0), snapshots |-> 0]

\* Option::ok_or_else
ok_or_else(opt, msg) == IF opt = None THEN Err(msg) ELSE Ok(opt[1])

(***************************************************************************)
(* Tables.  A table is a map from the keys of its rows to their values.    *)
(***************************************************************************)
EmptyTable == << >>

\* MdbxTransaction::get: the row's value, or None when the row is missing
get(table, key) == IF key \in DOMAIN table THEN Some(table[key]) ELSE None

\* the table with the row at key written (a row already there is replaced)
put(table, key, value) ==
    [k \in DOMAIN table \cup {key} |-> IF k = key THEN value ELSE table[k]]

Rows(table) == Cardinality(DOMAIN table)

(***************************************************************************)
(* Reader: canonical chain pointers (src/src/reader.rs).                   *)
(***************************************************************************)
read_head_header_hash ==
    ok_or_else(get(db.LastHeader, "LastHeader"), "read_head_header_hash")

read_head_block_hash ==
    ok_or_else(get(db.LastBlock, "LastBlock"), "read_head_block_hash")

\* mutant: a missing row gives number 0 ("unwrap_or_default", as
\* DbTx::read_header_number of src/src/db.rs does)
read_header_number_or_default(hash) ==
    LET res == get(db.HeaderNumber, hash)
    IN  IF res = None THEN Ok(0) ELSE Ok(res[1])

read_header_number(hash) ==
    ok_or_else(get(db.HeaderNumber, hash), "read_header_number")

\* mutant: the head hash is returned without the header-number lookup
read_head_block_number_nolookup == read_head_header_hash

read_head_block_number ==
    LET hash == read_head_header_hash
    IN  IF ~IsOk(hash) THEN hash ELSE read_header_number(hash.val)

read_canonical_hash(num) ==
    ok_or_else(get(db.CanonicalHeader, num), "read_canonical_hash")

\* mutant: the comparison with the zero hash is dropped
is_canonical_hash_nozero(hash) ==
    LET num == read_header_number(hash)
    IN  IF ~IsOk(num) THEN num
        ELSE LET canonical_hash == read_canonical_hash(num.val)
             IN  IF ~IsOk(canonical_hash) THEN canonical_hash
                 ELSE Ok(canonical_hash.val = hash)

is_canonical_hash(hash) ==
    LET num == read_header_number(hash)
    IN  IF ~IsOk(num) THEN num
        ELSE LET canonical_hash == read_canonical_hash(num.val)
             IN  IF ~IsOk(canonical_hash) THEN canonical_hash
                 ELSE Ok(canonical_hash.val # ZeroHash /\ canonical_hash.val = hash)

(***************************************************************************)
(* Account codec (src/src/account.rs).  A stored account is a byte string: *)
(* a sequence of numbers 0..255.                                           *)
(***************************************************************************)
KECCAK_LENGTH == 32

DefaultCodeHash == [i \in 1..KECCAK_LENGTH |-> 0]

\* Account::default()
DefaultAccount ==
    [nonce |-> 0, incarnation |-> 0, balance |-> 0, codehash |-> DefaultCodeHash]

RECURSIVE BytesToNat(_)
\* the big-endian unsigned integer held by a byte string
BytesToNat(buf) ==
    IF buf = << >> THEN 0
    ELSE 256 * BytesToNat(SubSeq(buf, 1, Len(buf) - 1)) + buf[Len(buf)]

\* utils::bytes_to_u64: the bytes are copied in reverse into an 8-byte
\* little-endian buffer; a ninth byte is written out of bounds
bytes_to_u64(buf) ==
    IF Len(buf) > 8 THEN Panic("index out of bounds") ELSE Ok(BytesToNat(buf))

\* the bytes left after the first n
Advance(enc, n) == SubSeq(enc, n + 1, Len(enc))

\* account::parse_u64_with_len: a length byte, then that many bytes
parse_u64_with_len(enc) ==
    IF enc = << >> THEN Panic("get_u8")
    ELSE LET len == Head(enc)
             rest == Tail(enc)
         IN  IF len > Len(rest) THEN Panic("range end index")
             ELSE LET val == bytes_to_u64(SubSeq(rest, 1, len))
                  IN  IF ~IsOk(val) THEN val
                      ELSE Ok([val |-> val.val, enc |-> Advance(rest, len)])

\* bit b (0 is the lowest) of the fieldset byte is set
HasField(fieldset, b) == (fieldset \div (2 ^ b)) % 2 = 1

\* Account::decode, nonce field: "if fieldset & 1 > 0"
DecodeNonce(fieldset, st) ==
    IF ~IsOk(st) \/ ~HasField(fieldset, 0) THEN st
    ELSE LET f == parse_u64_with_len(st.val.enc)
         IN  IF ~IsOk(f) THEN f
             ELSE Ok([enc |-> f.val.enc, acct |-> [st.val.acct EXCEPT !.nonce = f.val.val]])

\* Account::decode, balance field: "if fieldset & 2 > 0"
DecodeBalance(fieldset, st) ==
    IF ~IsOk(st) \/ ~HasField(fieldset, 1) THEN st
    ELSE LET enc == st.val.enc
         IN  IF enc = << >> THEN Panic("get_u8")
             ELSE LET bal_len == Head(enc)
                      rest == Tail(enc)
                  IN  IF bal_len > Len(rest) THEN Panic("range end index")
                      ELSE IF bal_len > 32 THEN Panic("U256 from slice")
                      ELSE Ok([enc |-> Advance(rest, bal_len),
                               acct |-> [st.val.acct EXCEPT
                                            !.balance = BytesToNat(SubSeq(rest, 1, bal_len))]])

\* mutant: the incarnation field is stored as the nonce
DecodeIncarnation_as_nonce(fieldset, st) ==
    IF ~IsOk(st) \/ ~HasField(fieldset, 2) THEN st
    ELSE LET f == parse_u64_with_len(st.val.enc)
         IN  IF ~IsOk(f) THEN f
             ELSE Ok([enc |-> f.val.enc,
                      acct |-> [st.val.acct EXCEPT !.nonce = f.val.val]])

\* Account::decode, incarnation field: "if fieldset & 4 > 0"
DecodeIncarnation(fieldset, st) ==
    IF ~IsOk(st) \/ ~HasField(fieldset, 2) THEN st
    ELSE LET f == parse_u64_with_len(st.val.enc)
         IN  IF ~IsOk(f) THEN f
             ELSE Ok([enc |-> f.val.enc,
                      acct |-> [st.val.acct EXCEPT !.incarnation = f.val.val]])

\* Account::decode, codehash field: "if fieldset & 8 > 0"
DecodeCodehash(fieldset, st) ==
    IF ~IsOk(st) \/ ~HasField(fieldset, 3) THEN st
    ELSE LET enc == st.val.enc
         IN  IF enc = << >> THEN Panic("get_u8")
             ELSE LET len == Head(enc)
                      rest == Tail(enc)
                  IN  IF len # KECCAK_LENGTH THEN Err("codehash should be 32 bytes long")
                      ELSE IF Len(rest) < KECCAK_LENGTH THEN Panic("range end index")
                      ELSE Ok([enc |-> Advance(rest, KECCAK_LENGTH),
                               acct |-> [st.val.acct EXCEPT
                                            !.codehash = SubSeq(rest, 1, KECCAK_LENGTH)]])

\* mutant: bytes left after the last field are ignored
Account_decode_lenient(enc) ==
    IF enc = << >> THEN Ok(DefaultAccount)
    ELSE LET fieldset == Head(enc)
             st == DecodeCodehash(fieldset,
                     DecodeIncarnation(fieldset,
                       DecodeBalance(fieldset,
                         DecodeNonce(fieldset,
                           Ok([enc |-> Tail(enc), acct |-> DefaultAccount])))))
         IN  IF ~IsOk(st) THEN st
             ELSE Ok(st.val.acct)

\* <Account as TableDecode>::decode
Account_decode(enc) ==
    IF enc = << >> THEN Ok(DefaultAccount)
    ELSE LET fieldset == Head(enc)
             st == DecodeCodehash(fieldset,
                     DecodeIncarnation(fieldset,
                       DecodeBalance(fieldset,
                         DecodeNonce(fieldset,
                           Ok([enc |-> Tail(enc), acct |-> DefaultAccount])))))
         IN  IF ~IsOk(st) THEN st
             ELSE IF Len(st.val.enc) > 0 THEN Err("unexpected account field")
             ELSE Ok(st.val.acct)

\* <Account as TableEncode>::encode: "dummy impl", Vec::default() for every
\* account
Account_encode(acct) == << >>

RECURSIVE NatToBytes(_)
\* the shortest big-endian byte string holding n (empty for 0)
NatToBytes(n) ==
    IF n = 0 THEN << >> ELSE Append(NatToBytes(n \div 256), n % 256)

\* one field of the storage encoding: a length byte, then the bytes
LenPrefixed(bytes) == <<Len(bytes)>> \o bytes

\* The storage encoding of an account, written by the node (and by the test
\* Writer's PutAccount): a fieldset byte, then each non-zero field.
EncodeForStorage(acct) ==
    LET fieldset == (IF acct.nonce > 0 THEN 1 ELSE 0)
                      + (IF acct.balance > 0 THEN 2 ELSE 0)
                      + (IF acct.incarnation > 0 THEN 4 ELSE 0)
                      + (IF acct.codehash # DefaultCodeHash THEN 8 ELSE 0)
    IN  <<fieldset>>
          \o (IF acct.nonce > 0 THEN LenPrefixed(NatToBytes(acct.nonce)) ELSE << >>)
          \o (IF acct.balance > 0 THEN LenPrefixed(NatToBytes(acct.balance)) ELSE << >>)
          \o (IF acct.incarnation > 0 THEN LenPrefixed(NatToBytes(acct.incarnation))
              ELSE << >>)
          \o (IF acct.codehash # DefaultCodeHash THEN LenPrefixed(acct.codehash) ELSE << >>)

\* The compact encoding of an account with the fields of the given fieldset
\* present: the fieldset byte, then each present field, in the order nonce,
\* balance, incarnation, code hash, as a length byte and that many
\* big-endian bytes.
CompactEncoding(acct, fieldset) ==
    <<fieldset>>
      \o (IF HasField(fieldset, 0) THEN LenPrefixed(NatToBytes(acct.nonce)) ELSE << >>)
      \o (IF HasField(fieldset, 1) THEN LenPrefixed(NatToBytes(acct.balance)) ELSE << >>)
      \o (IF HasField(fieldset, 2) THEN LenPrefixed(NatToBytes(acct.incarnation)) ELSE << >>)
      \o (IF HasField(fieldset, 3) THEN LenPrefixed(acct.codehash) ELSE << >>)

(***************************************************************************)
(* Reader: accounts and storage (src/src/reader.rs).                       *)
(***************************************************************************)
\* Option::unwrap_or_default behind MdbxTransaction::get, whose value is
\* decoded with Account::decode when the row is there
read_account_data(who) ==
    LET row == get(db.PlainState, who)
    IN  IF row = None THEN Ok(DefaultAccount) ELSE Account_decode(row[1])

\* StorageBucket::new
StorageBucket(address, incarnation) == <<address, incarnation>>

\* the slot keys held under a bucket of the Storage table
BucketSlots(bucket) ==
    {k[3] : k \in {x \in DOMAIN db.Storage : <<x[1], x[2]>> = bucket}}

\* MdbxCursor::seek_both_range on the duplicate-keyed Storage table: the
\* first (slot, value) of exactly this bucket whose slot is >= key
seek_both_range(bucket, key) ==
    LET slots == {k \in BucketSlots(bucket) : k >= key}
    IN  IF slots = {} THEN None
        ELSE LET k == CHOOSE x \in slots : \A y \in slots : x <= y
             IN  Some(<<k, db.Storage[<<bucket[1], bucket[2], k>>]>>)

\* read_account_storage without the "if k == key" test
read_account_storage_anyslot(who, incarnation, key) ==
    LET found == seek_both_range(StorageBucket(who, incarnation), key)
    IN  IF found # None THEN Ok(found[1][2]) ELSE Ok(ZeroValue)

read_account_storage(who, incarnation, key) ==
    LET found == seek_both_range(StorageBucket(who, incarnation), key)
    IN  IF found # None /\ found[1][1] = key THEN Ok(found[1][2]) ELSE Ok(ZeroValue)

(***************************************************************************)
(* Stored values that are RLP in the store.  An entry is either the        *)
(* encoding of a value or bytes that do not decode.                        *)
(***************************************************************************)
\* fastrlp Encodable::encode of a header, body or signed message
Rlp(v) == [tag |-> "rlp", val |-> v]

\* bytes that are no encoding of the expected type
Junk == [tag |-> "junk", val |-> << >>]

\* fastrlp Decodable::decode
Decode(entry, msg) == IF entry.tag = "rlp" THEN Ok(entry.val) ELSE Err(msg)

\* akula BlockHeader: the fields BlockCast and the uncle lookup read
Headers == [number : Num, parent_hash : {ZeroHash}]

\* BlockHeader::hash of the headers above: a non-zero hash per header
HeaderHash(header) == header.number + 1

\* the uncle lists of stored bodies
UncleLists == UNION {[1..n -> Headers] : n \in 0..MaxUncles}

\* akula BodyForStorage
Bodies == [base_tx_id : 0..MaxBase, tx_amount : 0..MaxAmount, uncles : UncleLists]

\* akula Message variants
Kinds == {"Legacy", "EIP2930", "EIP1559"}

\* akula MessageWithSignature: the variant, and whether a sender can be
\* recovered from the signature
Messages == [kind : Kinds, sig_ok : BOOLEAN]

KindTag(kind) == CASE kind = "Legacy" -> 0 [] kind = "EIP2930" -> 1 [] kind = "EIP1559" -> 2

\* MessageWithSignature::hash: distinct messages have distinct hashes
TxHash(msg) == 1 + 2 * KindTag(msg.kind) + (IF msg.sig_ok THEN 0 ELSE 1)

TxHashes == {TxHash(msg) : msg \in Messages}

\* MessageWithSignature::recover_sender
recover_sender(msg) ==
    IF msg.sig_ok THEN Ok(TxHash(msg) % (MaxAddr + 1)) ELSE Err("recover_sender")

(***************************************************************************)
(* Reader: headers, bodies and transactions (src/src/reader.rs).           *)
(***************************************************************************)
read_header_rlp(key) == ok_or_else(get(db.Header, key), "read_header_rlp")

read_header(key) ==
    LET raw_header == read_header_rlp(key)
    IN  IF ~IsOk(raw_header) THEN raw_header
        ELSE Decode(raw_header.val, "cant decode header")

\* read_body_for_storage without the system-transaction adjustment
read_body_for_storage_raw(key) ==
    LET raw_body == ok_or_else(get(db.BlockBody, key), "cant find body")
    IN  IF ~IsOk(raw_body) THEN raw_body
        ELSE Decode(raw_body.val, "BodyForStorage decode error")

\* "base_tx_id.0 += 1" and "tx_amount.checked_sub(2)"
read_body_for_storage(key) ==
    LET raw_body == ok_or_else(get(db.BlockBody, key), "cant find body")
    IN  IF ~IsOk(raw_body) THEN raw_body
        ELSE LET body == Decode(raw_body.val, "BodyForStorage decode error")
             IN  IF ~IsOk(body) THEN body
                 ELSE IF body.val.tx_amount < 2 THEN Err("Block body has too few txs")
                 ELSE Ok([body.val EXCEPT !.base_tx_id = @ + 1, !.tx_amount = @ - 2])

read_transaction_block_number(hash) ==
    ok_or_else(get(db.BlockTransactionLookup, hash), "cant find tx")

RECURSIVE Ascending(_)
\* the elements of a finite set of numbers in ascending order
Ascending(S) ==
    IF S = {} THEN << >>
    ELSE LET k == CHOOSE x \in S : \A y \in S : x <= y
         IN  <<k>> \o Ascending(S \ {k})

\* MdbxCursor::walk(Some(start_key)): the keys of the table at or after
\* start_key, in key order
Walk(start_key) == Ascending({k \in DOMAIN db.BlockTransaction : k >= start_key})

\* an iterator over the decode results of every entry from start_key on
stream_transactions(start_key) ==
    LET keys == Walk(start_key)
    IN  [i \in 1..Len(keys) |-> Decode(db.BlockTransaction[keys[i]], "decode")]

\* Iterator::take
Take(seq, n) == SubSeq(seq, 1, IF n < Len(seq) THEN n ELSE Len(seq))

\* Iterator::flatten over Results: the Ok values, errors dropped
Flatten(seq) ==
    LET oks == SelectSeq(seq, IsOk) IN [i \in 1..Len(oks) |-> oks[i].val]

\* Iterator::collect::<Result<Vec<_>>>: the first error, else the values
Collect(seq) ==
    IF \E i \in 1..Len(seq) : ~IsOk(seq[i])
    THEN seq[CHOOSE i \in 1..Len(seq) : ~IsOk(seq[i]) /\ \A j \in 1..(i - 1) : IsOk(seq[j])]
    ELSE Ok([i \in 1..Len(seq) |-> seq[i].val])

read_transactions(start_key, n) ==
    LET res == Collect(Take(stream_transactions(start_key), n))
    IN  IF ~IsOk(res) THEN res
        ELSE IF Len(res.val) # n THEN Err("Could not read transactions")
        ELSE res

\* ".take(n).flatten()"
try_stream_transactions(start_key, n) == Flatten(Take(stream_transactions(start_key), n))

\* "res.unwrap_or_default()": no row gives the empty list of senders
read_senders(key) ==
    LET res == get(db.TxSender, key)
    IN  IF res = None THEN Ok(<< >>) ELSE Ok(res[1])

\* "res.unwrap_or_default()": no row gives incarnation 0
read_last_incarnation(who) ==
    LET res == get(db.IncarnationMap, who)
    IN  IF res = None THEN Ok(0) ELSE Ok(res[1])

\* keccak256 of the empty byte string, as a hash of Hash other than the
\* zero hash
EMPTY_CODEHASH == 1

\* mutant: the code table is read for every code hash
read_code_always(codehash) ==
    ok_or_else(get(db.Code, codehash), "read_account_data_raw")

read_code(codehash) ==
    IF codehash = EMPTY_CODEHASH THEN Ok(<< >>)
    ELSE ok_or_else(get(db.Code, codehash), "read_account_data_raw")

(***************************************************************************)
(* Casts to the externally visible types (src/src/utils.rs).               *)
(***************************************************************************)
\* mutant: every variant is given a gas price
MsgCast_gas_price_all(msg) == Some("price")

MsgCast_gas_price(msg) == IF msg.kind \in {"Legacy", "EIP2930"} THEN Some("price") ELSE None

MsgCast_tx_type(msg) ==
    CASE msg.kind = "EIP2930" -> Some(1)
      [] msg.kind = "EIP1559" -> Some(2)
      [] OTHER -> None

MsgCast_access_list(msg) ==
    IF msg.kind \in {"EIP2930", "EIP1559"} THEN Some("list") ELSE None

\* the Transaction built by MsgCast::cast once the sender is known
Transaction(msg, from, block_num, block_hash, idx) ==
    [msg |-> msg,
     hash |-> TxHash(msg),
     from |-> from,
     block_hash |-> Some(block_hash),
     block_number |-> Some(block_num),
     transaction_index |-> Some(idx),
     gas_price |-> MsgCast_gas_price(msg),
     transaction_type |-> MsgCast_tx_type(msg),
     access_list |-> MsgCast_access_list(msg)]

\* MsgCast::new(&msg).cast(..): 'recover_sender().expect("bad sig")'
MsgCast_cast(msg, block_num, block_hash, idx) ==
    LET from == recover_sender(msg)
    IN  IF ~IsOk(from) THEN Panic("bad sig")
        ELSE Ok(Transaction(msg, from.val, block_num, block_hash, idx))

\* BlockCast(&header).cast(txs, block_num, block_hash, ommer_hashes)
BlockCast_cast(header, txs, block_num, block_hash, ommer_hashes) ==
    [hash |-> Some(block_hash),
     number |-> Some(block_num),
     parent_hash |-> header.parent_hash,
     uncles |-> ommer_hashes,
     transactions |-> txs]

(***************************************************************************)
(* Block identifiers (ethers BlockId) and their resolution to a header key *)
(* (src/src/client.rs, get_header_key).                                    *)
(***************************************************************************)
IdHash(h) == [tag |-> "Hash", val |-> h]
IdNumber(n) == [tag |-> "Number", val |-> n]
IdLatest == [tag |-> "Latest", val |-> 0]
IdPending == [tag |-> "Pending", val |-> 0]
IdEarliest == [tag |-> "Earliest", val |-> 0]

BlockIds ==
    {IdHash(h) : h \in Hash} \cup {IdNumber(n) : n \in Num}
        \cup {IdLatest, IdPending, IdEarliest}

\* mutant: only hash, number and latest are resolved, as in an earlier draft
\* (DbTx::get_header_key); pending and earliest abort
get_header_key_draft(id) ==
    CASE id.tag = "Hash" ->
            LET num == read_header_number(id.val)
            IN  IF ~IsOk(num) THEN num ELSE Ok(<<num.val, id.val>>)
      [] id.tag = "Number" ->
            LET hash == read_canonical_hash(id.val)
            IN  IF ~IsOk(hash) THEN hash ELSE Ok(<<id.val, hash.val>>)
      [] id.tag = "Latest" ->
            LET hash == read_head_header_hash
            IN  IF ~IsOk(hash) THEN hash
                ELSE LET num == read_header_number(hash.val)
                     IN  IF ~IsOk(num) THEN num ELSE Ok(<<num.val, hash.val>>)
      [] OTHER -> Panic("unsupported block id type")

get_header_key(id) ==
    CASE id.tag = "Hash" ->
            LET num == read_header_number(id.val)
            IN  IF ~IsOk(num) THEN num ELSE Ok(<<num.val, id.val>>)
      [] id.tag = "Number" ->
            LET hash == read_canonical_hash(id.val)
            IN  IF ~IsOk(hash) THEN hash ELSE Ok(<<id.val, hash.val>>)
      [] id.tag \in {"Latest", "Pending"} ->
            LET hash == read_head_header_hash
            IN  IF ~IsOk(hash) THEN hash
                ELSE LET num == read_header_number(hash.val)
                     IN  IF ~IsOk(num) THEN num ELSE Ok(<<num.val, hash.val>>)
      [] id.tag = "Earliest" ->
            LET hash == read_canonical_hash(0)
            IN  IF ~IsOk(hash) THEN hash ELSE Ok(<<0, hash.val>>)

(***************************************************************************)
(* Client (src/src/client.rs).                                             *)
(***************************************************************************)
get_block_number == read_head_block_number

\* get_balance reading the nonce field
get_balance_nonce(from, block) ==
    IF block # None THEN Panic("no history handling yet")
    ELSE LET acct == read_account_data(from)
         IN  IF ~IsOk(acct) THEN acct ELSE Ok(acct.val.nonce)

\* get_storage_at that yields zero when the account row is missing
get_storage_at_absent_zero(from, location, block) ==
    IF block # None THEN Panic("no history handling yet")
    ELSE IF get(db.PlainState, from) = None THEN Ok(ZeroValue)
    ELSE LET acct == read_account_data(from)
         IN  IF ~IsOk(acct) THEN acct
             ELSE read_account_storage(from, acct.val.incarnation, location)

\* "assert!(block.is_none(), ...)": any block parameter aborts
get_balance(from, block) ==
    IF block # None THEN Panic("no history handling yet")
    ELSE LET acct == read_account_data(from)
         IN  IF ~IsOk(acct) THEN acct ELSE Ok(acct.val.balance)

get_transaction_count(from, block) ==
    IF block # None THEN Panic("no history handling yet")
    ELSE LET acct == read_account_data(from)
         IN  IF ~IsOk(acct) THEN acct ELSE Ok(acct.val.nonce)

get_storage_at(from, location, block) ==
    IF block # None THEN Panic("no history handling yet")
    ELSE LET acct == read_account_data(from)
         IN  IF ~IsOk(acct) THEN acct
             ELSE read_account_storage(from, acct.val.incarnation, location)

\* the position (from 1) of the first message with this hash, or 0
Find(msgs, hash) ==
    IF \E i \in 1..Len(msgs) : TxHash(msgs[i]) = hash
    THEN CHOOSE i \in 1..Len(msgs) :
            /\ TxHash(msgs[i]) = hash
            /\ \A j \in 1..(i - 1) : TxHash(msgs[j]) # hash
    ELSE 0

get_transaction(hash) ==
    LET block_num == read_transaction_block_number(hash)
    IN  IF ~IsOk(block_num) THEN block_num
        ELSE
    LET block_hash == read_canonical_hash(block_num.val)
    IN  IF ~IsOk(block_hash) THEN block_hash
        ELSE
    LET body == read_body_for_storage(<<block_num.val, block_hash.val>>)
    IN  IF ~IsOk(body) THEN body
        ELSE
    LET msgs == try_stream_transactions(body.val.base_tx_id, body.val.tx_amount)
        pos == Find(msgs, hash)
    IN  IF pos = 0 THEN Err("No transaction hash in block")
        ELSE LET tx == MsgCast_cast(msgs[pos], block_num.val, block_hash.val, pos - 1)
             IN  IF ~IsOk(tx) THEN tx ELSE Ok(Some(tx.val))

\* the uncle hashes: read_canonical_hash of each uncle header's number
OmmerHashes(body) ==
    Collect([i \in 1..Len(body.uncles) |-> read_canonical_hash(body.uncles[i].number)])

get_block(id) ==
    LET header_key == get_header_key(id)
    IN  IF ~IsOk(header_key) THEN header_key
        ELSE
    LET block_num == header_key.val[1]
        block_hash == header_key.val[2]
        header == read_header(header_key.val)
    IN  IF ~IsOk(header) THEN header
        ELSE
    LET body == read_body_for_storage(header_key.val)
    IN  IF ~IsOk(body) THEN body
        ELSE
    LET tx_amt == body.val.tx_amount
        msgs == stream_transactions(body.val.base_tx_id)
        hashes == [i \in 1..Len(msgs) |->
                      IF ~IsOk(msgs[i]) THEN msgs[i] ELSE Ok(TxHash(msgs[i].val))]
        txs == Collect(Take(hashes, tx_amt))
    IN  IF ~IsOk(txs) THEN txs
        ELSE IF Len(txs.val) # tx_amt THEN Err("Failed to get some txs in block")
        ELSE
    LET ommer_hashes == OmmerHashes(body.val)
    IN  IF ~IsOk(ommer_hashes) THEN ommer_hashes
        ELSE Ok(Some(BlockCast_cast(header.val, txs.val, block_num, block_hash,
                                    ommer_hashes.val)))

\* mutant: the scan counts the positions from 1
CastAll_from_one(msgs, block_num, block_hash) ==
    LET casts == [i \in 1..Len(msgs) |-> MsgCast_cast(msgs[i], block_num, block_hash, i)]
    IN  IF \E i \in 1..Len(casts) : ~IsOk(casts[i]) THEN Panic("bad sig")
        ELSE Ok([i \in 1..Len(casts) |-> casts[i].val])

\* the scan of get_block_with_txs: each message cast with its position; a
\* cast that panics aborts the scan
CastAll(msgs, block_num, block_hash) ==
    LET casts == [i \in 1..Len(msgs) |-> MsgCast_cast(msgs[i], block_num, block_hash, i - 1)]
    IN  IF \E i \in 1..Len(casts) : ~IsOk(casts[i]) THEN Panic("bad sig")
        ELSE Ok([i \in 1..Len(casts) |-> casts[i].val])

get_block_with_txs(id) ==
    LET header_key == get_header_key(id)
    IN  IF ~IsOk(header_key) THEN header_key
        ELSE
    LET block_num == header_key.val[1]
        block_hash == header_key.val[2]
        header == read_header(header_key.val)
    IN  IF ~IsOk(header) THEN header
        ELSE
    LET body == read_body_for_storage(header_key.val)
    IN  IF ~IsOk(body) THEN body
        ELSE
    LET tx_amt == body.val.tx_amount
        txs == CastAll(try_stream_transactions(body.val.base_tx_id, tx_amt),
                       block_num, block_hash)
    IN  IF ~IsOk(txs) THEN txs
        ELSE IF Len(txs.val) # tx_amt THEN Err("Failed to get some txs in block")
        ELSE
    LET ommer_hashes == OmmerHashes(body.val)
    IN  IF ~IsOk(ommer_hashes) THEN ommer_hashes
        ELSE Ok(Some(BlockCast_cast(header.val, txs.val, block_num, block_hash,
                                    ommer_hashes.val)))

get_uncle_count(id) ==
    LET header_key == get_header_key(id)
    IN  IF ~IsOk(header_key) THEN header_key
        ELSE
    LET body == read_body_for_storage(header_key.val)
    IN  IF ~IsOk(body) THEN body
        ELSE Ok(Len(body.val.uncles))

\* get_uncle with an error for an index past the uncles
get_uncle_strict(id, idx) ==
    LET header_key == get_header_key(id)
    IN  IF ~IsOk(header_key) THEN header_key
        ELSE
    LET body == read_body_for_storage(header_key.val)
    IN  IF ~IsOk(body) THEN body
        ELSE IF idx < Len(body.val.uncles)
             THEN get_block(IdNumber(body.val.uncles[idx + 1].number))
             ELSE Err("no uncle at this index")

\* idx counts from 0; the uncle is looked up as a block by its number
get_uncle(id, idx) ==
    LET header_key == get_header_key(id)
    IN  IF ~IsOk(header_key) THEN header_key
        ELSE
    LET body == read_body_for_storage(header_key.val)
    IN  IF ~IsOk(body) THEN body
        ELSE IF idx < Len(body.val.uncles)
             THEN get_block(IdNumber(body.val.uncles[idx + 1].number))
             ELSE Ok(None)

\* the read snapshots a call opens: one for each self.reader() it reaches.
\* The state queries assert on their block parameter before they open one;
\* get_uncle opens one and, for an index within the uncles, calls get_block,
\* which opens its own; every other call works on one reader.
Snapshots(op, arg) ==
    CASE op \in {"get_balance", "get_transaction_count", "get_storage_at"} ->
            IF arg[Len(arg)] # None THEN 0 ELSE 1
      [] op = "get_uncle" ->
            LET header_key == get_header_key(arg[1])
            IN  IF ~IsOk(header_key) THEN 1
                ELSE
            LET body == read_body_for_storage(header_key.val)
            IN  IF ~IsOk(body) THEN 1
                ELSE IF arg[2] < Len(body.val.uncles) THEN 1 + 1
                ELSE 1
      [] op \in {"Account_decode", "Account_encode_decode", "MsgCast_cast"} -> 0
      [] OTHER -> 1

(***************************************************************************)
(* The Writer (src/src/ffi/writer.rs) and the state machine.               *)
(***************************************************************************)
RowCount ==
    Rows(db.LastHeader) + Rows(db.LastBlock) + Rows(db.HeaderNumber)
        + Rows(db.CanonicalHeader)
        + Rows(db.PlainState) + Rows(db.Storage) + Rows(db.Header) + Rows(db.BlockBody)
        + Rows(db.BlockTransaction) + Rows(db.BlockTransactionLookup)
        + Rows(db.TxSender) + Rows(db.Code)

\* a store freshly made by Writer::open; no query has been made
Init ==
    /\ db = [LastHeader |-> EmptyTable, LastBlock |-> EmptyTable,
             HeaderNumber |-> EmptyTable,
             CanonicalHeader |-> EmptyTable, PlainState |-> EmptyTable,
             Storage |-> EmptyTable, Header |-> EmptyTable, BlockBody |-> EmptyTable,
             BlockTransactionLookup |-> EmptyTable, BlockTransaction |-> EmptyTable,
             TxSender |-> EmptyTable, IncarnationMap |-> EmptyTable, Code |-> EmptyTable]
    /\ writer = "open"
    /\ last = NoQuery

Seeding == writer = "open" /\ RowCount < MaxRows

PutHeadHeaderHash ==
    /\ Seeding
    /\ \E hash \in Hash :
          db' = [db EXCEPT !.LastHeader = put(@, "LastHeader", hash)]
    /\ UNCHANGED <<writer, last>>

PutHeaderNumber ==
    /\ Seeding
    /\ \E hash \in Hash, num \in Num :
          db' = [db EXCEPT !.HeaderNumber = put(@, hash, num)]
    /\ UNCHANGED <<writer, last>>

PutCanonicalHash ==
    /\ Seeding
    /\ \E hash \in Hash, num \in Num :
          db' = [db EXCEPT !.CanonicalHeader = put(@, num, hash)]
    /\ UNCHANGED <<writer, last>>

\* the accounts the Writer stores
Accounts ==
    [nonce : 0..MaxVal, incarnation : Incarnation, balance : 0..MaxVal,
     codehash : {DefaultCodeHash}]

\* accounts with no nonce and no balance: an incarnation only
BareAccounts == {acct \in Accounts : acct.nonce = 0 /\ acct.balance = 0}

\* Writer::put_account, for accounts of the given set: the node's storage
\* encoding of the account is stored
PutAccount(accounts) ==
    /\ Seeding
    /\ \E who \in Addr, acct \in accounts :
          db' = [db EXCEPT !.PlainState = put(@, who, EncodeForStorage(acct))]
    /\ UNCHANGED <<writer, last>>

\* Writer::put_storage, with the incarnation of the bucket as a parameter:
\* a node's store holds the storage of every incarnation of an account
PutStorage ==
    /\ Seeding
    /\ \E who \in Addr, inc \in Incarnation, key \in Slot, val \in 1..MaxVal :
          db' = [db EXCEPT !.Storage = put(@, <<who, inc, key>>, val)]
    /\ UNCHANGED <<writer, last>>

\* the Writer has not written to this table yet: a table of block data is
\* filled by one call
Fresh(table) == writer = "open" /\ Rows(table) = 0

\* Writer::put_header: the row goes under (header.number, header.hash())
PutHeader ==
    /\ Fresh(db.Header)
    /\ \E header \in Headers :
          db' = [db EXCEPT !.Header = put(@, <<header.number, HeaderHash(header)>>, Rlp(header))]
    /\ UNCHANGED <<writer, last>>

\* Writer::put_body_for_storage(hash, num, body), for keys and entries of
\* the given sets
PutBodyForStorage(keys, entries) ==
    /\ Fresh(db.BlockBody)
    /\ \E key \in keys, entry \in entries :
          db' = [db EXCEPT !.BlockBody = put(@, key, entry)]
    /\ UNCHANGED <<writer, last>>

\* the keys (number, hash) of the headers put_header stores
HeaderKeys == {<<header.number, HeaderHash(header)>> : header \in Headers}

\* the bodies of the given uncle lists, encoded
BodyEntries(uncles) == {Rlp(body) : body \in {b \in Bodies : b.uncles \in uncles}}

\* the transaction entries the Writer stores: put_transactions stores the
\* encoding of a message, put_raw_transactions bytes that may not decode
TxPool == {Rlp(msg) : msg \in {m \in Messages : m.kind = "Legacy"}} \cup {Junk}

\* the encodings of two messages of different variants whose senders can be
\* recovered, and bytes that do not decode
SignedPool == {Rlp(msg) : msg \in {m \in Messages : m.kind # "EIP2930" /\ m.sig_ok}} \cup {Junk}

\* Writer::put_transactions / put_raw_transactions(txs, base_id), for
\* entries of the given set: the entries go under base_id, base_id + 1, ...
PutTransactions(pool) ==
    /\ Fresh(db.BlockTransaction)
    /\ \E base_id \in 0..MaxTxId, n \in 1..MaxTxs :
          \E txs \in [1..n -> pool] :
              db' = [db EXCEPT !.BlockTransaction =
                                  [k \in base_id..(base_id + n - 1) |-> txs[k - base_id + 1]]]
    /\ UNCHANGED <<writer, last>>

\* Writer::put_tx_lookup_entries(block_num, tx_hashes)
PutTxLookupEntries ==
    /\ Fresh(db.BlockTransactionLookup)
    /\ \E block_num \in Num, tx_hashes \in (SUBSET {TxHash(e.val) : e \in TxPool \ {Junk}}) \ {{}} :
          db' = [db EXCEPT !.BlockTransactionLookup = [h \in tx_hashes |-> block_num]]
    /\ UNCHANGED <<writer, last>>

\* Writer::put_canonical_hash, while the table has fewer than n rows
PutCanonicalHashes(n) ==
    /\ writer = "open"
    /\ Rows(db.CanonicalHeader) < n
    /\ \E num \in Num \ DOMAIN db.CanonicalHeader, hash \in Hash :
          db' = [db EXCEPT !.CanonicalHeader = put(@, num, hash)]
    /\ UNCHANGED <<writer, last>>

\* Writer::put_senders(block_hash, block_num, senders), for keys of the
\* given set
PutSenders(keys) ==
    /\ Seeding
    /\ \E key \in keys, n \in 1..MaxTxs :
          \E senders \in [1..n -> Addr] :
              db' = [db EXCEPT !.TxSender = put(@, key, senders)]
    /\ UNCHANGED <<writer, last>>

\* a row of the code table, which the node writes when a contract is
\* deployed: the code under its hash
PutCode ==
    /\ Seeding
    /\ \E codehash \in Hash, code \in {<<1>>} :
          db' = [db EXCEPT !.Code = put(@, codehash, code)]
    /\ UNCHANGED <<writer, last>>

\* the optional block parameter of the state queries
BlockParams == {None, Some(IdLatest), Some(IdEarliest)}

\* Writer::close, then Client::open_new on the same path
Close ==
    /\ writer = "open"
    /\ writer' = "closed"
    /\ UNCHANGED <<db, last>>

\* mutant: a query that opens the store for writing and clears the state
\* table
Query_writing(op, arg, res) ==
    /\ writer = "closed"
    /\ last' = [op |-> op, arg |-> arg, res |-> res, snapshots |-> Snapshots(op, arg)]
    /\ db' = [db EXCEPT !.PlainState = EmptyTable]
    /\ UNCHANGED writer

\* a query works on "Environment::open_ro": it writes to no table
Query(op, arg, res) ==
    /\ writer = "closed"
    /\ last' = [op |-> op, arg |-> arg, res |-> res, snapshots |-> Snapshots(op, arg)]
    /\ UNCHANGED <<db, writer>>

GetBlockNumber == Query("get_block_number", << >>, get_block_number)

GetHeaderKey == \E id \in BlockIds : Query("get_header_key", id, get_header_key(id))

IsCanonicalHash == \E hash \in Hash : Query("is_canonical_hash", hash, is_canonical_hash(hash))

NextChain ==
    \/ PutHeadHeaderHash
    \/ PutHeaderNumber
    \/ PutCanonicalHash
    \/ Close
    \/ GetBlockNumber
    \/ GetHeaderKey
    \/ IsCanonicalHash

SpecChain == Init /\ [][NextChain]_vars

ReadHeadHeaderHash == Query("read_head_header_hash", << >>, read_head_header_hash)

\* the Writer has no call that stores the head-block hash: its row is
\* written by the node only, and is missing from every store seeded here
ReadHeadBlockHash == Query("read_head_block_hash", << >>, read_head_block_hash)

NextHead ==
    \/ PutHeadHeaderHash
    \/ PutHeaderNumber
    \/ PutCanonicalHash
    \/ Close
    \/ ReadHeadHeaderHash
    \/ ReadHeadBlockHash
    \/ GetBlockNumber

SpecHead == Init /\ [][NextHead]_vars

GetBalance ==
    \E from \in Addr, block \in BlockParams :
        Query("get_balance", <<from, block>>, get_balance(from, block))

GetTransactionCount ==
    \E from \in Addr, block \in BlockParams :
        Query("get_transaction_count", <<from, block>>, get_transaction_count(from, block))

GetStorageAt ==
    \E from \in Addr, location \in Slot, block \in BlockParams :
        Query("get_storage_at", <<from, location, block>>,
              get_storage_at(from, location, block))

ReadAccountStorage ==
    \E who \in Addr, inc \in Incarnation, key \in Slot :
        Query("read_account_storage", <<who, inc, key>>,
              read_account_storage(who, inc, key))

NextAccount ==
    \/ PutAccount(Accounts)
    \/ Close
    \/ GetBalance
    \/ GetTransactionCount

SpecAccount == Init /\ [][NextAccount]_vars

NextStorage ==
    \/ PutStorage
    \/ Close
    \/ ReadAccountStorage

SpecStorage == Init /\ [][NextStorage]_vars

NextState ==
    \/ PutAccount(BareAccounts)
    \/ PutStorage
    \/ Close
    \/ GetStorageAt

SpecState == Init /\ [][NextState]_vars

ReadBodyForStorage ==
    \E key \in Num \X Hash :
        Query("read_body_for_storage", key, read_body_for_storage(key))

NextBody ==
    \/ PutBodyForStorage(Num \X Hash, BodyEntries(UncleLists) \cup {Junk})
    \/ Close
    \/ ReadBodyForStorage

SpecBody == Init /\ [][NextBody]_vars

GetTransaction ==
    \E hash \in TxHashes : Query("get_transaction", hash, get_transaction(hash))

NextTx ==
    \/ PutTxLookupEntries
    \/ PutCanonicalHashes(1)
    \/ PutBodyForStorage(Num \X Hash, BodyEntries({<< >>}))
    \/ PutTransactions(TxPool)
    \/ Close
    \/ GetTransaction

SpecTx == Init /\ [][NextTx]_vars

\* the block identifiers the block queries are made with: the numbers, the
\* hash of the header of block 0, and earliest
BlockQueryIds ==
    {IdNumber(n) : n \in Num}
        \cup {IdHash(HeaderHash(header)) : header \in {h \in Headers : h.number = 0}}
        \cup {IdEarliest}

GetBlock ==
    \E id \in BlockQueryIds : Query("get_block", id, get_block(id))

GetBlockWithTxs ==
    \E id \in BlockQueryIds : Query("get_block_with_txs", id, get_block_with_txs(id))

NextBlock ==
    \/ PutCanonicalHashes(MaxRows)
    \/ PutHeader
    \/ PutBodyForStorage(HeaderKeys, BodyEntries(UncleLists))
    \/ PutTransactions(TxPool)
    \/ Close
    \/ GetBlock
    \/ GetBlockWithTxs

SpecBlock == Init /\ [][NextBlock]_vars

GetUncleCount ==
    \E id \in BlockQueryIds : Query("get_uncle_count", id, get_uncle_count(id))

GetUncle ==
    \E id \in BlockQueryIds, idx \in 0..MaxUncles :
        Query("get_uncle", <<id, idx>>, get_uncle(id, idx))

\* the encoded bodies of blocks with at most one user transaction: the
\* store of the uncle queries holds no transaction, so a block with a user
\* transaction is one that get_block fails to read
UncleBodyEntries ==
    {Rlp(body) : body \in {b \in Bodies : b.base_tx_id = 0 /\ b.tx_amount <= 3}}

NextUncle ==
    \/ PutCanonicalHashes(2)
    \/ PutHeader
    \/ PutBodyForStorage(HeaderKeys, UncleBodyEntries)
    \/ Close
    \/ GetUncleCount
    \/ GetUncle

SpecUncle == Init /\ [][NextUncle]_vars

\* MsgCast::new(&msg).cast(block_num, block_hash, idx) of a decoded message
\* of any of the three variants
MsgCastCast ==
    \E msg \in Messages, block_num \in Num, block_hash \in Hash, idx \in 0..MaxAmount :
        Query("MsgCast_cast", <<msg, block_num, block_hash, idx>>,
              MsgCast_cast(msg, block_num, block_hash, idx))

NextCast ==
    \/ Close
    \/ MsgCastCast

SpecCast == Init /\ [][NextCast]_vars

\* accounts that differ in their balance only
BalanceAccounts == {acct \in Accounts : acct.nonce = 0 /\ acct.incarnation = 0}

\* every query of the Client, in any order, on a store with accounts and a
\* block
NextFacade ==
    \/ PutAccount(BalanceAccounts)
    \/ PutCanonicalHashes(1)
    \/ PutHeader
    \/ PutBodyForStorage({<<0, 1>>}, BodyEntries({<< >>}))
    \/ Close
    \/ GetBlockNumber
    \/ GetBalance
    \/ GetTransactionCount
    \/ GetStorageAt
    \/ GetTransaction
    \/ GetBlock
    \/ GetBlockWithTxs
    \/ GetUncleCount
    \/ GetUncle

SpecFacade == Init /\ [][NextFacade]_vars

\* get_block and get_block_with_txs on a store whose transactions have
\* recoverable senders, so that both can succeed on a block with
\* transactions
NextBlockPair ==
    \/ PutCanonicalHashes(1)
    \/ PutHeader
    \/ PutBodyForStorage(HeaderKeys, BodyEntries(UncleLists))
    \/ PutTransactions(SignedPool)
    \/ Close
    \/ GetBlock
    \/ GetBlockWithTxs

SpecBlockPair == Init /\ [][NextBlockPair]_vars

\* the four block queries on a store where any of the rows they read may
\* be missing
NextLookup ==
    \/ PutHeaderNumber
    \/ PutCanonicalHash
    \/ PutHeader
    \/ PutBodyForStorage(HeaderKeys, UncleBodyEntries)
    \/ Close
    \/ GetBlock
    \/ GetBlockWithTxs
    \/ GetUncleCount
    \/ GetUncle

SpecLookup == Init /\ [][NextLookup]_vars

(***************************************************************************)
(* The account codec as a function of the stored bytes: the store holds    *)
(* one account row, and Account::decode is applied to its bytes.           *)
(***************************************************************************)
\* a code hash that is not the default one
SampleCodeHash == [i \in 1..KECCAK_LENGTH |-> i]

\* accounts with every combination of absent, one-byte and longer fields
CodecAccounts ==
    [nonce : {0, 1, MaxCodecNonce},
     incarnation : {0, 1, MaxCodecIncarnation},
     balance : {0, 1, MaxCodecBalance},
     codehash : {DefaultCodeHash, SampleCodeHash}]

\* the fieldsets under which an account can be encoded: every field that
\* is not zero is present
Fieldsets(acct) ==
    {fieldset \in 0..15 :
        /\ acct.nonce > 0 => HasField(fieldset, 0)
        /\ acct.balance > 0 => HasField(fieldset, 1)
        /\ acct.incarnation > 0 => HasField(fieldset, 2)
        /\ acct.codehash # DefaultCodeHash => HasField(fieldset, 3)}

\* the compact encodings of the accounts
Encodings == UNION {{CompactEncoding(acct, fieldset) : fieldset \in Fieldsets(acct)} :
                        acct \in CodecAccounts}

\* the bytes that follow an encoding in a row that is too long
TrailBytes == {0, 1, KECCAK_LENGTH, 255}

\* the byte strings of 1..MaxTrail such bytes
Trailers == UNION {[1..n -> TrailBytes] : n \in 1..MaxTrail}

\* the encodings followed by further bytes
Overlong == {enc \o trail : enc \in Encodings, trail \in Trailers}

\* n zero bytes
Zeros(n) == [i \in 1..n |-> 0]

\* the bytes of a field as they may stand in a row that is no encoding of
\* an account: nothing, one byte, one byte more than a u64, the 32 bytes of
\* a U256 or a code hash, and one byte more than those
RawFields == {<< >>, <<1>>, Zeros(9), Zeros(KECCAK_LENGTH), Zeros(KECCAK_LENGTH + 1)}

\* a fieldset byte followed, for each field it announces, by a length byte
\* and the bytes of fields[1] (nonce), fields[2] (balance), fields[3]
\* (incarnation), fields[4] (code hash)
RawEncoding(fieldset, fields) ==
    <<fieldset>>
      \o (IF HasField(fieldset, 0) THEN LenPrefixed(fields[1]) ELSE << >>)
      \o (IF HasField(fieldset, 1) THEN LenPrefixed(fields[2]) ELSE << >>)
      \o (IF HasField(fieldset, 2) THEN LenPrefixed(fields[3]) ELSE << >>)
      \o (IF HasField(fieldset, 3) THEN LenPrefixed(fields[4]) ELSE << >>)

RawEncodings ==
    {RawEncoding(fieldset, fields) : fieldset \in 0..15, fields \in [1..4 -> RawFields]}

\* the encodings cut short
Truncated == UNION {{SubSeq(enc, 1, n) : n \in 1..(Len(enc) - 1)} : enc \in Encodings}

\* the byte strings held by the account row
CodecInputs == {<< >>} \cup Encodings \cup Overlong \cup RawEncodings \cup Truncated

\* a store whose state table holds one account row
InitCodec ==
    /\ \E enc \in CodecInputs :
          db = [LastHeader |-> EmptyTable, LastBlock |-> EmptyTable,
                HeaderNumber |-> EmptyTable,
                CanonicalHeader |-> EmptyTable, PlainState |-> (0 :> enc),
                Storage |-> EmptyTable, Header |-> EmptyTable, BlockBody |-> EmptyTable,
                BlockTransactionLookup |-> EmptyTable, BlockTransaction |-> EmptyTable,
             TxSender |-> EmptyTable, IncarnationMap |-> EmptyTable, Code |-> EmptyTable]
    /\ writer = "closed"
    /\ last = NoQuery

\* Account::decode of the bytes of an account row
AccountDecode ==
    \E who \in DOMAIN db.PlainState :
        Query("Account_decode", db.PlainState[who], Account_decode(db.PlainState[who]))

\* Account::encode of an account that was read, and Account::decode of the
\* bytes it gives
AccountEncodeDecode ==
    /\ last.op = "Account_decode"
    /\ IsOk(last.res)
    /\ Query("Account_encode_decode", last.res.val,
             Account_decode(Account_encode(last.res.val)))

NextCodec ==
    \/ AccountDecode
    \/ AccountEncodeDecode

SpecCodec == InitCodec /\ [][NextCodec]_vars

(***************************************************************************)
(* The lookups of the Reader, one table row each.                          *)
(***************************************************************************)
ReadHeaderNumber ==
    \E hash \in Hash : Query("read_header_number", hash, read_header_number(hash))

ReadCanonicalHash ==
    \E num \in Num : Query("read_canonical_hash", num, read_canonical_hash(num))

ReadHeader ==
    \E key \in Num \X Hash : Query("read_header", key, read_header(key))

ReadTransactionBlockNumber ==
    \E hash \in TxHashes :
        Query("read_transaction_block_number", hash, read_transaction_block_number(hash))

ReadSenders ==
    \E key \in Num \X Hash : Query("read_senders", key, read_senders(key))

ReadCode ==
    \E codehash \in Hash : Query("read_code", codehash, read_code(codehash))

ReadLastIncarnation ==
    \E who \in Addr : Query("read_last_incarnation", who, read_last_incarnation(who))

ReadAccountData ==
    \E who \in Addr : Query("read_account_data", who, read_account_data(who))

NextReader ==
    \/ PutHeaderNumber
    \/ PutCanonicalHash
    \/ PutSenders(HeaderKeys)
    \/ PutCode
    \/ PutHeader
    \/ PutBodyForStorage({<<0, 1>>}, BodyEntries({<< >>}))
    \/ Close
    \/ ReadHeaderNumber
    \/ ReadCanonicalHash
    \/ ReadHeader
    \/ ReadBodyForStorage
    \/ ReadTransactionBlockNumber
    \/ ReadSenders
    \/ ReadCode
    \/ ReadLastIncarnation
    \/ ReadAccountData
    \/ ReadAccountStorage

SpecReader == Init /\ [][NextReader]_vars

\* read_code and read_account_data on a store with accounts and code
NextCode ==
    \/ PutAccount(BalanceAccounts)
    \/ PutCode
    \/ Close
    \/ ReadAccountData
    \/ ReadCode

SpecCode == Init /\ [][NextCode]_vars

(***************************************************************************)
(* Claims.                                                                 *)
(***************************************************************************)
IsOkWith(r, v) == r.tag = "Ok" /\ r.val = v

\* the head-header-hash singleton holds h
HeadIs(h) == get(db.LastHeader, "LastHeader") = Some(h)

\* C3: get_header_key resolves a block identifier to (number, hash): an
\* explicit hash h to (header-number(h), h); an explicit number n to
\* (n, canonical-hash(n)); latest and pending to (header-number(H), H) with H
\* the head-header hash; earliest to (0, canonical-hash(0)).  It returns a
\* key only when the rows it resolves through are present.
C3_HeaderKeyResolution ==
    last.op = "get_header_key" =>
        LET id == last.arg
            r == last.res
        IN  /\ id.tag = "Hash" =>
                  /\ \A n \in Num : get(db.HeaderNumber, id.val) = Some(n)
                                        => IsOkWith(r, <<n, id.val>>)
                  /\ IsOk(r) => get(db.HeaderNumber, id.val) # None
            /\ id.tag = "Number" =>
                  /\ \A h \in Hash : get(db.CanonicalHeader, id.val) = Some(h)
                                        => IsOkWith(r, <<id.val, h>>)
                  /\ IsOk(r) => get(db.CanonicalHeader, id.val) # None
            /\ id.tag \in {"Latest", "Pending"} =>
                  /\ \A h \in Hash, n \in Num :
                        HeadIs(h) /\ get(db.HeaderNumber, h) = Some(n)
                            => IsOkWith(r, <<n, h>>)
                  /\ IsOk(r) => \E h \in Hash : HeadIs(h) /\ get(db.HeaderNumber, h) # None
            /\ id.tag = "Earliest" =>
                  /\ \A h \in Hash : get(db.CanonicalHeader, 0) = Some(h)
                                        => IsOkWith(r, <<0, h>>)
                  /\ IsOk(r) => get(db.CanonicalHeader, 0) # None

\* C3 witness: pending was resolved through the head-header hash to a key
\* whose number is not 0
C3_Witness ==
    /\ last.op = "get_header_key"
    /\ last.arg.tag = "Pending"
    /\ IsOk(last.res)
    /\ last.res.val[1] > 0
    /\ last.res.val[2] # ZeroHash

\* C5: is_canonical_hash(h) is true exactly when header-number(h) = N,
\* canonical-hash(N) = h and h is not the zero hash; when header-number(h) = N
\* and canonical-hash(N) is another hash the answer is false.
C5_IsCanonicalHash ==
    last.op = "is_canonical_hash" =>
        LET h == last.arg
            r == last.res
        IN  /\ IsOkWith(r, TRUE) <=>
                  /\ h # ZeroHash
                  /\ \E n \in Num : get(db.HeaderNumber, h) = Some(n) /\ get(db.CanonicalHeader, n) = Some(h)
            /\ \A n \in Num, c \in Hash :
                  get(db.HeaderNumber, h) = Some(n) /\ get(db.CanonicalHeader, n) = Some(c) /\ c # h
                      => IsOkWith(r, FALSE)

\* C5 witness: a hash that is numbered but not canonical at its number was
\* asked about
C5_Witness ==
    /\ last.op = "is_canonical_hash"
    /\ IsOkWith(last.res, FALSE)
    /\ last.arg # ZeroHash
    /\ \E n \in Num : get(db.HeaderNumber, last.arg) = Some(n)
                        /\ get(db.CanonicalHeader, n) # None
                        /\ get(db.CanonicalHeader, n) # Some(ZeroHash)

\* C5 second witness: a canonical hash was confirmed
C5_WitnessTrue ==
    last.op = "is_canonical_hash" /\ IsOkWith(last.res, TRUE)

\* C9: get_block_number returns header-number(H) for the head-header hash H,
\* and returns a number only when both rows are present.
C9_BlockNumber ==
    last.op = "get_block_number" =>
        /\ \A h \in Hash, n \in Num :
              HeadIs(h) /\ get(db.HeaderNumber, h) = Some(n) => IsOkWith(last.res, n)
        /\ IsOk(last.res) => \E h \in Hash : HeadIs(h) /\ get(db.HeaderNumber, h) # None

\* C9 witness: the head block number was read and differs from the head hash
C9_Witness ==
    /\ last.op = "get_block_number"
    /\ IsOk(last.res)
    /\ ~HeadIs(last.res.val)

\* the value the Storage table holds under exactly (who, incarnation, key),
\* or the zero value when it holds no such entry
StoredValue(who, incarnation, key) ==
    IF <<who, incarnation, key>> \in DOMAIN db.Storage
    THEN db.Storage[<<who, incarnation, key>>] ELSE ZeroValue

\* C6: read_account_storage(address, incarnation, slot) returns v exactly
\* when the storage table holds v under exactly that bucket and slot; with
\* no such entry (no bucket, another incarnation, only larger slots) it
\* returns the zero value and never a neighbouring slot's value.
C6_ExactSlotOnly ==
    last.op = "read_account_storage" =>
        /\ IsOkWith(last.res, StoredValue(last.arg[1], last.arg[2], last.arg[3]))
        /\ \A v \in 1..MaxVal :
              IsOkWith(last.res, v) <=>
                  get(db.Storage, <<last.arg[1], last.arg[2], last.arg[3]>>) = Some(v)

\* C6 witness: the bucket holds only a larger slot, so the seek lands on a
\* neighbour, and the read returned zero
C6_Witness ==
    /\ last.op = "read_account_storage"
    /\ <<last.arg[1], last.arg[2], last.arg[3]>> \notin DOMAIN db.Storage
    /\ \E k \in Slot :
          /\ k > last.arg[3]
          /\ <<last.arg[1], last.arg[2], k>> \in DOMAIN db.Storage
    /\ IsOkWith(last.res, ZeroValue)

\* C6 witness: an exact entry was read back
C6_WitnessHit ==
    /\ last.op = "read_account_storage"
    /\ <<last.arg[1], last.arg[2], last.arg[3]>> \in DOMAIN db.Storage
    /\ last.res = Ok(db.Storage[<<last.arg[1], last.arg[2], last.arg[3]>>])

\* the incarnation get_storage_at looks under: that of the stored account
\* record, and 0 (the default account's) when no record is stored
LookupIncarnation(who) ==
    IF get(db.PlainState, who) = None THEN 0
    ELSE (CHOOSE a \in Accounts : db.PlainState[who] = EncodeForStorage(a)).incarnation

C7_WitnessRecord ==
    /\ last.op = "get_storage_at"
    /\ last.arg[3] = None
    /\ get(db.PlainState, last.arg[1]) # None
    /\ LookupIncarnation(last.arg[1]) > 0
    /\ <<last.arg[1], LookupIncarnation(last.arg[1]), last.arg[2]>> \in DOMAIN db.Storage
    /\ ~IsOkWith(last.res, ZeroValue)

\* C8: get_balance(A, None) returns the balance and
\* get_transaction_count(A, None) the nonce of the account record stored at
\* A; with no record at A both return 0 and neither returns an error.
C8_BalanceAndNonce ==
    /\ (last.op = "get_balance" /\ last.arg[2] = None) =>
          /\ get(db.PlainState, last.arg[1]) = None => IsOkWith(last.res, 0)
          /\ \A a \in Accounts :
                get(db.PlainState, last.arg[1]) = Some(EncodeForStorage(a))
                    => IsOkWith(last.res, a.balance)
    /\ (last.op = "get_transaction_count" /\ last.arg[2] = None) =>
          /\ get(db.PlainState, last.arg[1]) = None => IsOkWith(last.res, 0)
          /\ \A a \in Accounts :
                get(db.PlainState, last.arg[1]) = Some(EncodeForStorage(a))
                    => IsOkWith(last.res, a.nonce)

\* C8 witness: a record whose balance differs from its nonce, and the
\* balance was returned
C8_Witness ==
    /\ last.op = "get_balance"
    /\ last.arg[2] = None
    /\ \E a \in Accounts :
          /\ get(db.PlainState, last.arg[1]) = Some(EncodeForStorage(a))
          /\ a.balance > 0
          /\ a.balance # a.nonce
          /\ last.res = Ok(a.balance)

\* C8 witness: no record at the address, and the count returned was 0
C8_WitnessAbsent ==
    /\ last.op = "get_transaction_count"
    /\ last.arg[2] = None
    /\ get(db.PlainState, last.arg[1]) = None
    /\ DOMAIN db.PlainState # {}
    /\ last.res = Ok(0)

\* the body stored under a header key, when the row is there and decodes
StoredBody(key) ==
    IF key \in DOMAIN db.BlockBody /\ db.BlockBody[key].tag = "rlp"
    THEN Some(db.BlockBody[key].val) ELSE None

C4_WitnessTooFew ==
    /\ last.op = "read_body_for_storage"
    /\ StoredBody(last.arg) # None
    /\ StoredBody(last.arg)[1].tx_amount < 2
    /\ last.res.tag = "Err"

\* the transaction ids of a stored body's user range: those left when the
\* first and the last system slot are stripped
UserRange(body) == (body.base_tx_id + 1)..(body.base_tx_id + body.tx_amount - 2)

\* the transaction table holds the encoding of msg under id k
HoldsTx(k, msg) == get(db.BlockTransaction, k) = Some(Rlp(msg))

\* the 0-based position of id k among the entries of a body's user range
Position(body, k) ==
    Cardinality({j \in UserRange(body) : j < k /\ j \in DOMAIN db.BlockTransaction})

\* C1: for a transaction t stored in the user range of a block body, with a
\* tx-lookup entry hash(t) -> N and a canonical-hash entry N -> H,
\* get_transaction(hash(t)) returns a transaction with block_number N,
\* block_hash H, hash hash(t), transaction_index t's 0-based position in
\* the user range (its first occurrence there), and t's fields.
C1_GetTransaction ==
    (/\ last.op = "get_transaction"
     /\ get(db.BlockTransactionLookup, last.arg) # None) =>
        LET N == db.BlockTransactionLookup[last.arg]
        IN  get(db.CanonicalHeader, N) # None =>
        LET H == db.CanonicalHeader[N]
        IN  StoredBody(<<N, H>>) # None =>
        LET body == StoredBody(<<N, H>>)[1]
        IN  \A k \in UserRange(body), t \in Messages :
                ( /\ TxHash(t) = last.arg
                  /\ HoldsTx(k, t)
                  /\ \A j \in UserRange(body) : j < k => ~HoldsTx(j, t) )
                =>
                ( /\ IsOk(last.res)
                  /\ last.res.val[1].block_number = Some(N)
                  /\ last.res.val[1].block_hash = Some(H)
                  /\ last.res.val[1].hash = TxHash(t)
                  /\ last.res.val[1].transaction_index = Some(Position(body, k))
                  /\ last.res.val[1].msg = t )

\* the header key a block query resolved, when the header and a body with
\* at least the two system slots are stored under it
ResolvedBlock(id) ==
    LET key == get_header_key(id)
    IN  /\ IsOk(key)
        /\ key.val \in DOMAIN db.Header
        /\ db.Header[key.val].tag = "rlp"
        /\ StoredBody(key.val) # None
        /\ StoredBody(key.val)[1].tx_amount >= 2

\* the body of a resolved block
BodyOf(id) == StoredBody(get_header_key(id).val)[1]

\* the ids of the first n entries of the transaction table at or after start
FirstIds(start, n) ==
    {k \in DOMAIN db.BlockTransaction :
        /\ k >= start
        /\ Cardinality({j \in DOMAIN db.BlockTransaction : start <= j /\ j < k}) < n}

\* how many of the first n entries at or after start decode
Readable(start, n) ==
    Cardinality({k \in FirstIds(start, n) : db.BlockTransaction[k].tag = "rlp"})

\* C2: get_block and get_block_with_txs never return a partial block: when
\* fewer than the adjusted tx_amount transactions can be read and decoded
\* from the adjusted base_tx_id on, the query fails with an error; on
\* success the transactions list has exactly tx_amount elements.
C2_NoPartialBlock ==
    (last.op \in {"get_block", "get_block_with_txs"} /\ ResolvedBlock(last.arg)) =>
        LET body == BodyOf(last.arg)
            amount == body.tx_amount - 2
        IN  /\ Readable(body.base_tx_id + 1, amount) < amount => last.res.tag = "Err"
            /\ IsOk(last.res) => Len(last.res.val[1].transactions) = amount

\* C10: when the canonical-hash row of an uncle listed in the block's body
\* is missing, get_block and get_block_with_txs fail with an error, and
\* return no block.
C10_MissingUncleFails ==
    (last.op \in {"get_block", "get_block_with_txs"} /\ ResolvedBlock(last.arg)) =>
        LET body == BodyOf(last.arg)
        IN  (\E i \in 1..Len(body.uncles) :
                get(db.CanonicalHeader, body.uncles[i].number) = None)
            => last.res.tag = "Err"

\* the block id resolves to a header key under which a body with at least
\* the two system slots is stored
ResolvedBody(id) ==
    LET key == get_header_key(id)
    IN  /\ IsOk(key)
        /\ StoredBody(key.val) # None
        /\ StoredBody(key.val)[1].tx_amount >= 2

\* two results are the same result
SameResult(r, s) == r.tag = s.tag /\ r.val = s.val

C11_WitnessBlock ==
    /\ last.op = "get_uncle"
    /\ ResolvedBody(last.arg[1])
    /\ last.arg[2] < Len(BodyOf(last.arg[1]).uncles)
    /\ IsOk(last.res)
    /\ last.res.val # None
    /\ last.res.val[1].number = Some(BodyOf(last.arg[1]).uncles[last.arg[2] + 1].number)

\* C11 witness: the uncles of a body with an uncle were counted
C11_WitnessCount ==
    /\ last.op = "get_uncle_count"
    /\ ResolvedBody(last.arg)
    /\ last.res = Ok(1)

\* C12: when the tx-lookup table maps hash h to block N and no transaction
\* in the user range of block N's body has hash h, get_transaction(h)
\* returns an error: it neither returns a transaction nor aborts.
C12_NotInRangeFails ==
    (/\ last.op = "get_transaction"
     /\ get(db.BlockTransactionLookup, last.arg) # None) =>
        LET N == db.BlockTransactionLookup[last.arg]
        IN  get(db.CanonicalHeader, N) # None =>
        LET H == db.CanonicalHeader[N]
        IN  StoredBody(<<N, H>>) # None =>
        LET body == StoredBody(<<N, H>>)[1]
        IN  (\A k \in UserRange(body), t \in Messages :
                HoldsTx(k, t) => TxHash(t) # last.arg)
            => last.res.tag = "Err"

\* C13: get_balance, get_transaction_count and get_storage_at accept their
\* block parameter exactly when it is omitted or latest, and answer from
\* the store; for every other block parameter they return an error to the
\* caller and do not abort.
C13_BlockParameter ==
    last.op \in {"get_balance", "get_transaction_count", "get_storage_at"} =>
        LET block == last.arg[Len(last.arg)]
        IN  IF block \in {None, Some(IdLatest)}
            THEN last.res.tag = "Ok"
            ELSE last.res.tag = "Err"

\* the queries of the Client
FacadeQueries ==
    {"get_block_number", "get_balance", "get_transaction_count", "get_storage_at",
     "get_transaction", "get_block", "get_block_with_txs", "get_uncle_count", "get_uncle"}

\* C14: every query of the Client opens exactly one read snapshot during
\* its execution, through which all of its table lookups are made.
C14_OneSnapshot == last.op \in FacadeQueries => last.snapshots = 1

\* C15: Account::decode applied to the compact encoding of an account a
\* (fieldset byte, then each present field as a length byte and that many
\* big-endian bytes) returns exactly a; applied to the empty byte string it
\* returns the all-zero account and no error.
C15_DecodeEncoding ==
    last.op = "Account_decode" =>
        /\ last.arg \in Encodings => \A acct \in CodecAccounts, fieldset \in 0..15 :
              (fieldset \in Fieldsets(acct) /\ last.arg = CompactEncoding(acct, fieldset))
                  => IsOkWith(last.res, acct)
        /\ last.arg = << >> => IsOkWith(last.res, DefaultAccount)

\* C15 witness: an encoding with all four fields present, the nonce, the
\* incarnation and the balance longer than one byte, was decoded
C15_Witness ==
    /\ last.op = "Account_decode"
    /\ last.arg = CompactEncoding([nonce |-> MaxCodecNonce,
                                   incarnation |-> MaxCodecIncarnation,
                                   balance |-> MaxCodecBalance,
                                   codehash |-> SampleCodeHash], 15)
    /\ IsOk(last.res)
    /\ last.res.val.balance = MaxCodecBalance

\* C15 witness: the empty byte string was decoded
C15_WitnessEmpty ==
    /\ last.op = "Account_decode"
    /\ last.arg = << >>
    /\ last.res = Ok(DefaultAccount)

\* C16: for every account, with any subset of nonce, balance, incarnation
\* and code hash populated, Account::decode(Account::encode(a)) = a.
C16_RoundTrip ==
    last.op = "Account_encode_decode" => IsOkWith(last.res, last.arg)

\* the byte string is a complete account encoding followed by one or more
\* bytes
HasTrailingBytes(enc) ==
    \E n \in 1..(Len(enc) - 1) : SubSeq(enc, 1, n) \in Encodings

\* C17: for every byte string formed by appending one or more bytes to a
\* complete account encoding, Account::decode fails with the error
\* "unexpected account field" and returns no account.
C17_TrailingBytes ==
    (last.op = "Account_decode" /\ HasTrailingBytes(last.arg)) =>
        /\ last.res.tag = "Err"
        /\ last.res.val = "unexpected account field"

\* C17 witness: an encoding with all four fields and one more byte was
\* refused
C17_Witness ==
    /\ last.op = "Account_decode"
    /\ last.arg = CompactEncoding([nonce |-> MaxCodecNonce,
                                   incarnation |-> MaxCodecIncarnation,
                                   balance |-> MaxCodecBalance,
                                   codehash |-> SampleCodeHash], 15) \o <<0>>
    /\ last.res.tag = "Err"

\* C17 witness: the encoding of the all-zero account and one more byte was
\* refused
C17_WitnessShort ==
    /\ last.op = "Account_decode"
    /\ last.arg = <<0, 1>>
    /\ last.res.tag = "Err"

\* the byte strings whose fieldset announces a code hash and whose
\* code-hash field has a length other than 32
BadCodehashLength ==
    {RawEncoding(fieldset, fields) :
        fieldset \in {x \in 0..15 : HasField(x, 3)},
        fields \in {f \in [1..4 -> RawFields] : Len(f[4]) # KECCAK_LENGTH}}

\* C18: for every account encoding whose fieldset announces a code hash and
\* whose code-hash length is other than 32, Account::decode fails with an
\* error, whatever the other fields are.
C18_CodehashLength ==
    (last.op = "Account_decode" /\ last.arg \in BadCodehashLength) =>
        last.res.tag = "Err"

\* C19: Account::decode is total and never aborts: for every byte string it
\* returns either an account or a decode error; a nonce or incarnation
\* field with a length byte above 8, a balance longer than 32 bytes, and a
\* length byte larger than the number of remaining bytes each give a decode
\* error.
C19_DecodeTotal ==
    last.op = "Account_decode" => last.res.tag \in {"Ok", "Err"}

\* C20: read_head_header_hash and read_head_block_hash return the zero
\* hash, not an error, when their singleton row is missing from the store.
C20_MissingHeadIsZero ==
    /\ (last.op = "read_head_header_hash" /\ get(db.LastHeader, "LastHeader") = None)
          => IsOkWith(last.res, ZeroHash)
    /\ (last.op = "read_head_block_hash" /\ get(db.LastBlock, "LastBlock") = None)
          => IsOkWith(last.res, ZeroHash)

\* C21: among the Reader's lookups a missing row is turned into a default
\* value by the account lookup (zero account), the storage slot lookup
\* (zero value) and the incarnation-map lookup (0); read_header_number,
\* read_canonical_hash, read_header, read_body_for_storage,
\* read_transaction_block_number, read_senders and read_code return an
\* error when their row is missing.
C21_MissingRows ==
    /\ (last.op = "read_account_data" /\ get(db.PlainState, last.arg) = None)
          => IsOkWith(last.res, DefaultAccount)
    /\ (last.op = "read_account_storage" /\ last.arg \notin DOMAIN db.Storage)
          => IsOkWith(last.res, ZeroValue)
    /\ (last.op = "read_last_incarnation" /\ get(db.IncarnationMap, last.arg) = None)
          => IsOkWith(last.res, 0)
    /\ (last.op = "read_header_number" /\ get(db.HeaderNumber, last.arg) = None)
          => last.res.tag = "Err"
    /\ (last.op = "read_canonical_hash" /\ get(db.CanonicalHeader, last.arg) = None)
          => last.res.tag = "Err"
    /\ (last.op = "read_header" /\ get(db.Header, last.arg) = None)
          => last.res.tag = "Err"
    /\ (last.op = "read_body_for_storage" /\ get(db.BlockBody, last.arg) = None)
          => last.res.tag = "Err"
    /\ (last.op = "read_transaction_block_number"
            /\ get(db.BlockTransactionLookup, last.arg) = None)
          => last.res.tag = "Err"
    /\ (last.op = "read_senders" /\ get(db.TxSender, last.arg) = None)
          => last.res.tag = "Err"
    /\ (last.op = "read_code" /\ last.arg # EMPTY_CODEHASH /\ get(db.Code, last.arg) = None)
          => last.res.tag = "Err"

\* the block id of a block query
QueryId == IF last.op = "get_uncle" THEN last.arg[1] ELSE last.arg

\* the row that resolves the block id is missing: the header-number row of
\* a hash, the canonical-hash row of a number (0 for earliest)
ResolutionRowMissing(id) ==
    \/ id.tag = "Hash" /\ get(db.HeaderNumber, id.val) = None
    \/ id.tag = "Number" /\ get(db.CanonicalHeader, id.val) = None
    \/ id.tag = "Earliest" /\ get(db.CanonicalHeader, 0) = None

\* the block id resolves to a header key under which the table has no row
RowMissing(table, id) ==
    IsOk(get_header_key(id)) /\ get(table, get_header_key(id).val) = None

\* C22 as stated: when the header row or the body row of the resolved
\* header key is missing, or the header-number or canonical-hash row that
\* resolves the block id is missing, get_block, get_block_with_txs,
\* get_uncle_count and get_uncle all return an error.
C22_MissingRowFails ==
    (/\ last.op \in {"get_block", "get_block_with_txs", "get_uncle_count", "get_uncle"}
     /\ \/ ResolutionRowMissing(QueryId)
        \/ RowMissing(db.Header, QueryId)
        \/ RowMissing(db.BlockBody, QueryId))
    => last.res.tag = "Err"

\* C22 amended: each of the four queries returns an error when a row it
\* reads is missing, and the error is the Reader's own: the row that
\* resolves the block id and the body row for all four, the header row for
\* get_block and get_block_with_txs (get_uncle_count and get_uncle do not
\* read the header).  No zero hash, zero number, empty header or empty body
\* is substituted.
C22_ReadRowMissingFails ==
    last.op \in {"get_block", "get_block_with_txs", "get_uncle_count", "get_uncle"} =>
        /\ ResolutionRowMissing(QueryId) =>
              /\ last.res.tag = "Err"
              /\ last.res.val \in {"read_header_number", "read_canonical_hash"}
        /\ RowMissing(db.BlockBody, QueryId) => last.res.tag = "Err"
        /\ (RowMissing(db.BlockBody, QueryId)
                /\ (last.op \in {"get_block", "get_block_with_txs"}
                        => ~RowMissing(db.Header, QueryId)))
              => last.res = Err("cant find body")
        /\ (last.op \in {"get_block", "get_block_with_txs"} /\ RowMissing(db.Header, QueryId))
              => last.res = Err("read_header_rlp")

\* C22 witness: get_block_with_txs of a hash whose header-number row and
\* body are stored and whose header row is missing returned the error
C22_Witness ==
    /\ last.op = "get_block_with_txs"
    /\ last.arg.tag = "Hash"
    /\ RowMissing(db.Header, last.arg)
    /\ ~RowMissing(db.BlockBody, last.arg)
    /\ last.res = Err("read_header_rlp")

\* C22 witness: get_uncle_count of a number whose canonical-hash row is
\* stored and whose body row is missing returned the error
C22_WitnessBody ==
    /\ last.op = "get_uncle_count"
    /\ last.arg.tag = "Number"
    /\ RowMissing(db.BlockBody, last.arg)
    /\ last.res = Err("cant find body")

\* C22 witness: get_uncle of a hash with no header-number row, while the
\* header and the body of (0, hash) are stored, returned the error
C22_WitnessNumber ==
    /\ last.op = "get_uncle"
    /\ last.arg[1].tag = "Hash"
    /\ get(db.HeaderNumber, last.arg[1].val) = None
    /\ get(db.BlockBody, <<0, last.arg[1].val>>) # None
    /\ last.res = Err("read_header_number")

\* C23 as stated: in the transaction MsgCast::cast produces, gas_price is
\* present exactly for Legacy and EIP-2930, the type tag is 0 for Legacy, 1
\* for EIP-2930 and 2 for EIP-1559, and access_list is present exactly for
\* EIP-2930 and EIP-1559.
C23_CastFields ==
    (last.op = "MsgCast_cast" /\ IsOk(last.res)) =>
        LET kind == last.arg[1].kind
            tx == last.res.val
        IN  /\ tx.gas_price # None <=> kind \in {"Legacy", "EIP2930"}
            /\ tx.transaction_type = Some(KindTag(kind))
            /\ tx.access_list # None <=> kind \in {"EIP2930", "EIP1559"}

\* C23 amended: gas_price is present exactly for Legacy and EIP-2930; the
\* type tag is absent for Legacy, 1 for EIP-2930 and 2 for EIP-1559;
\* access_list is present exactly for EIP-2930 and EIP-1559.
C23_CastFieldsLegacyUntagged ==
    (last.op = "MsgCast_cast" /\ IsOk(last.res)) =>
        LET kind == last.arg[1].kind
            tx == last.res.val
        IN  /\ tx.gas_price # None <=> kind \in {"Legacy", "EIP2930"}
            /\ tx.transaction_type =
                  (IF kind = "Legacy" THEN None ELSE Some(KindTag(kind)))
            /\ tx.access_list # None <=> kind \in {"EIP2930", "EIP1559"}

\* C23 witness: an EIP-1559 message was cast: no gas price, type tag 2, an
\* access list
C23_Witness ==
    /\ last.op = "MsgCast_cast"
    /\ IsOk(last.res)
    /\ last.arg[1].kind = "EIP1559"
    /\ last.res.val.gas_price = None
    /\ last.res.val.transaction_type = Some(2)
    /\ last.res.val.access_list # None

\* C23 witness: a Legacy message was cast: a gas price, no type tag, no
\* access list
C23_WitnessLegacy ==
    /\ last.op = "MsgCast_cast"
    /\ IsOk(last.res)
    /\ last.arg[1].kind = "Legacy"
    /\ last.res.val.gas_price # None
    /\ last.res.val.transaction_type = None
    /\ last.res.val.access_list = None

\* a message whose sender cannot be recovered is stored in the user range
\* of the body; for a hash, the message with that hash
BadSignatureInRange(body, hashes) ==
    \E k \in UserRange(body), t \in Messages :
        HoldsTx(k, t) /\ ~t.sig_ok /\ TxHash(t) \in hashes

\* C24: when a transaction of the requested range decodes and its sender
\* cannot be recovered from the signature, get_transaction (asked for that
\* transaction) and get_block_with_txs return an error to the caller; they
\* never abort.
C24_BadSignatureFails ==
    /\ last.op \in {"get_transaction", "get_block_with_txs"} => last.res.tag # "Panic"
    /\ (/\ last.op = "get_transaction"
        /\ get(db.BlockTransactionLookup, last.arg) # None) =>
          LET N == db.BlockTransactionLookup[last.arg]
          IN  get(db.CanonicalHeader, N) # None =>
          LET H == db.CanonicalHeader[N]
          IN  (StoredBody(<<N, H>>) # None
                  /\ BadSignatureInRange(StoredBody(<<N, H>>)[1], {last.arg}))
              => last.res.tag = "Err"
    /\ (/\ last.op = "get_block_with_txs"
        /\ ResolvedBlock(last.arg)
        /\ BadSignatureInRange(BodyOf(last.arg), TxHashes))
          => last.res.tag = "Err"

C25_WitnessBalance ==
    /\ last.op = "get_balance"
    /\ last.res = Ok(1)
    /\ DOMAIN db.PlainState # {}

\* C26: the uncles list of the block get_block and get_block_with_txs
\* return holds, in body order and one per uncle, the hash of each uncle
\* header stored in the block's body.
C26_UncleHashes ==
    (/\ last.op \in {"get_block", "get_block_with_txs"}
     /\ IsOk(last.res)
     /\ last.res.val # None) =>
        LET uncles == BodyOf(last.arg).uncles
        IN  last.res.val[1].uncles = [i \in 1..Len(uncles) |-> HeaderHash(uncles[i])]

\* C27: read_code of the empty-code hash returns the empty byte string
\* whatever the code table contains: with a row under that hash the stored
\* bytes are not returned (the table is not read), and with no row under
\* it there is no error.
C27_EmptyCodeHash ==
    (last.op = "read_code" /\ last.arg = EMPTY_CODEHASH) => last.res = Ok(<< >>)

\* C27 witness: the code table holds bytes under the empty-code hash, and
\* read_code of that hash returned the empty byte string
C27_Witness ==
    /\ last.op = "read_code"
    /\ last.arg = EMPTY_CODEHASH
    /\ get(db.Code, EMPTY_CODEHASH) = Some(<<1>>)
    /\ last.res = Ok(<< >>)

\* C27 witness: the code table holds a row, none under the empty-code hash,
\* and read_code of that hash returned the empty byte string
C27_WitnessNoRow ==
    /\ last.op = "read_code"
    /\ last.arg = EMPTY_CODEHASH
    /\ DOMAIN db.Code # {}
    /\ get(db.Code, EMPTY_CODEHASH) = None
    /\ last.res = Ok(<< >>)

\* the block with hashes and the block with transactions describe the same
\* block of the given header key
SameBlock(brief, full, key) ==
    /\ brief.hash = Some(key[2]) /\ full.hash = Some(key[2])
    /\ brief.number = Some(key[1]) /\ full.number = Some(key[1])
    /\ brief.uncles = full.uncles
    /\ Len(brief.transactions) = Len(full.transactions)
    /\ \A i \in 1..Len(full.transactions) :
          /\ full.transactions[i].transaction_index = Some(i - 1)
          /\ full.transactions[i].block_hash = Some(key[2])
          /\ full.transactions[i].block_number = Some(key[1])
          /\ full.transactions[i].hash = brief.transactions[i]

\* C28: when get_block(id) and get_block_with_txs(id) both succeed on the
\* same store, they report the hash and number of the resolved header key
\* and the same uncles, their transactions lists have the same length, and
\* the i-th transaction of get_block_with_txs has transaction_index i, the
\* block hash and number of the header key, and the i-th hash of get_block.
C28_BlockViewsAgree ==
    /\ (last.op = "get_block_with_txs" /\ IsOk(last.res) /\ IsOk(get_block(last.arg))) =>
          SameBlock(get_block(last.arg).val[1], last.res.val[1], get_header_key(last.arg).val)
    /\ (last.op = "get_block" /\ IsOk(last.res) /\ IsOk(get_block_with_txs(last.arg))) =>
          SameBlock(last.res.val[1], get_block_with_txs(last.arg).val[1],
                    get_header_key(last.arg).val)

\* C28 witness: both queries succeed on a block with an uncle and two
\* transactions of different hashes, and get_block_with_txs was called
C28_Witness ==
    /\ last.op = "get_block_with_txs"
    /\ IsOk(last.res)
    /\ IsOk(get_block(last.arg))
    /\ Len(last.res.val[1].uncles) = 1
    /\ Len(last.res.val[1].transactions) = 2
    /\ last.res.val[1].transactions[1].hash # last.res.val[1].transactions[2].hash

\* the body of the block a transaction hash is looked up in, when the
\* tx-lookup row, the canonical-hash row and the body are stored
LookupBody(hash) ==
    IF get(db.BlockTransactionLookup, hash) = None THEN None
    ELSE LET N == db.BlockTransactionLookup[hash]
         IN  IF get(db.CanonicalHeader, N) = None THEN None
             ELSE StoredBody(<<N, db.CanonicalHeader[N]>>)

\* C29: when get_transaction(h) succeeds with transaction_index i and the
\* transaction returned is stored in the user range of the block, exactly
\* i entries of the range are stored before its first occurrence there: an
\* entry that fails to decode is not left out of the count.
C29_IndexCountsEntries ==
    (/\ last.op = "get_transaction"
     /\ IsOk(last.res)
     /\ last.res.val # None
     /\ LookupBody(last.arg) # None) =>
        LET body == LookupBody(last.arg)[1]
            t == last.res.val[1].msg
        IN  \A k \in UserRange(body) :
                (HoldsTx(k, t) /\ \A j \in UserRange(body) : j < k => ~HoldsTx(j, t))
                => last.res.val[1].transaction_index = Some(Position(body, k))

\* C30: every transaction get_transaction, get_block_with_txs or get_block
\* returns was read from a key of the user range of the resolved block's
\* body: for get_transaction the transaction is stored under a key of the
\* range, for the block queries the transactions are the entries stored
\* under the keys of the range, in key order.
C30_WithinRange ==
    /\ (last.op = "get_transaction" /\ IsOk(last.res) /\ last.res.val # None) =>
          /\ LookupBody(last.arg) # None
          /\ \E k \in UserRange(LookupBody(last.arg)[1]) :
                HoldsTx(k, last.res.val[1].msg)
    /\ (last.op \in {"get_block", "get_block_with_txs"} /\ IsOk(last.res)) =>
          LET body == BodyOf(last.arg)
              txs == last.res.val[1].transactions
          IN  \A i \in 1..Len(txs) :
                  \E t \in Messages :
                      /\ HoldsTx(body.base_tx_id + i, t)
                      /\ body.base_tx_id + i \in UserRange(body)
                      /\ TxHash(t) = (IF last.op = "get_block" THEN txs[i] ELSE txs[i].hash)

=============================================================================
